---- MODULE Spec2Model ----
(***************************************************************************)
(* Model of the key-sequence resolver of carrier-pigeon-tui:               *)
(*   keymap.rs   KeyEvent ordering, Keymap::get, KeymapHandler::next       *)
(*   lib.rs      Keymaps (one keymap per mode), the keys passed through,   *)
(*               the loop of run_inner, the input thread                   *)
(* The unbounded key channel, the sender side of it and the timer of       *)
(* tokio::time::timeout are the environment of KeymapHandler::next.        *)
(* Specifications: Spec (the resolver), SpecGet (Keymap::get alone),       *)
(* SpecLoop (run_inner with the resolver), SpecInput (the input thread),   *)
(* SpecList (MessageListView of message_list.rs).                          *)
(***************************************************************************)
EXTENDS Integers, Sequences, FiniteSets, TLC

\* Number of key events the input thread sends in one run.
MaxSent == 3

\* keymap.rs:187  DEFAULT_KEY_TIMEOUT, in milliseconds.
DEFAULT_KEY_TIMEOUT == 500

----------------------------------------------------------------------------
\* KeyEvent { code, modifiers }.  A KeyCode::Char(c) is modelled by its code
\* point (Char sorts before every other variant), modifiers by their bits.
KeyEvent(code, modifiers) == [code |-> code, modifiers |-> modifiers]

Key_d == KeyEvent(100, 0)
Key_g == KeyEvent(103, 0)
Key_j == KeyEvent(106, 0)
Key_k == KeyEvent(107, 0)
Key_q == KeyEvent(113, 0)
\* "<S-G>": SHIFT (bit 1) with Char('G')
Key_SG == KeyEvent(71, 1)

\* The key events the input thread produces in the model.
Keys == {Key_d, Key_g, Key_j}

\* impl Ord for KeyEvent: by code, then by the bits of the modifiers.
\* -1 = Less, 0 = Equal, 1 = Greater.
KeyCmp(a, b) ==
    IF a.code < b.code THEN -1
    ELSE IF a.code > b.code THEN 1
    ELSE IF a.modifiers < b.modifiers THEN -1
    ELSE IF a.modifiers > b.modifiers THEN 1
    ELSE 0

\* impl PartialEq for KeyEvent: cmp == Equal.
KeyEq(a, b) == KeyCmp(a, b) = 0

\* Ord for Vec<KeyEvent> / [KeyEvent]: lexicographic, a strict prefix is Less.
RECURSIVE SeqCmp(_, _)
SeqCmp(s, t) ==
    IF s = <<>> THEN (IF t = <<>> THEN 0 ELSE -1)
    ELSE IF t = <<>> THEN 1
    ELSE LET c == KeyCmp(Head(s), Head(t))
         IN  IF c # 0 THEN c ELSE SeqCmp(Tail(s), Tail(t))

\* PartialEq between Vec<KeyEvent> and [KeyEvent]: same length, equal elements.
SeqEq(s, t) ==
    /\ Len(s) = Len(t)
    /\ \A i \in 1..Len(s) : KeyEq(s[i], t[i])

\* slice::starts_with
starts_with(k, prefix) ==
    /\ Len(prefix) <= Len(k)
    /\ \A i \in 1..Len(prefix) : KeyEq(k[i], prefix[i])

----------------------------------------------------------------------------
\* Option<&A> of an outcome: the action, or NoAction for None.
NoAction == "None"

\* Keymap<A> { keys: BTreeMap<Vec<KeyEvent>, A>, timeout }.  The BTreeMap is
\* the sequence of its entries in key order, each entry [k |-> keys, v |-> A].
KeymapDefault == [keys |-> <<>>, timeout |-> DEFAULT_KEY_TIMEOUT]

\* BTreeMap::insert: the entry goes to its place in key order; an equal key
\* is overwritten.
RECURSIVE BTreeInsert(_, _, _)
BTreeInsert(entries, k, v) ==
    IF entries = <<>> THEN << [k |-> k, v |-> v] >>
    ELSE LET c == SeqCmp(k, Head(entries).k)
         IN  IF c < 0 THEN << [k |-> k, v |-> v] >> \o entries
             ELSE IF c = 0 THEN << [k |-> k, v |-> v] >> \o Tail(entries)
             ELSE << Head(entries) >> \o BTreeInsert(Tail(entries), k, v)

\* BTreeMap::extend with a list of (keys, action) pairs, in list order.
RECURSIVE Extend(_, _)
Extend(entries, pairs) ==
    IF pairs = <<>> THEN entries
    ELSE Extend(BTreeInsert(entries, Head(pairs)[1], Head(pairs)[2]), Tail(pairs))

KeymapOf(pairs) == [keys |-> Extend(<<>>, pairs), timeout |-> DEFAULT_KEY_TIMEOUT]

\* Iterator::take_while over the entries
RECURSIVE TakeWhilePrefix(_, _)
TakeWhilePrefix(entries, prefix) ==
    IF entries = <<>> THEN <<>>
    ELSE IF starts_with(Head(entries).k, prefix)
         THEN << Head(entries) >> \o TakeWhilePrefix(Tail(entries), prefix)
         ELSE <<>>

\* BTreeMap::range((Included(prefix), Unbounded)): the entries from the first
\* one whose key is >= prefix.
RECURSIVE RangeFrom(_, _)
RangeFrom(entries, prefix) ==
    IF entries = <<>> THEN <<>>
    ELSE IF SeqCmp(Head(entries).k, prefix) >= 0 THEN entries
         ELSE RangeFrom(Tail(entries), prefix)

entries_with_prefix(keymap, prefix) ==
    TakeWhilePrefix(RangeFrom(keymap.keys, prefix), prefix)

\* Option<Option<&A>> of Keymap::get.
GetNone == [tag |-> "None", action |-> NoAction]
GetSomeNone == [tag |-> "SomeNone", action |-> NoAction]
GetSomeSome(a) == [tag |-> "SomeSome", action |-> a]

\* Mutant of get: the take_while of entries_with_prefix is missing, so the
\* first entry at or after the queried keys counts as starting with them.
get_NoTakeWhile(keymap, keys) ==
    LET es == RangeFrom(keymap.keys, keys)
    IN  IF es = <<>> THEN GetNone
        ELSE IF SeqEq(es[1].k, keys) THEN GetSomeSome(es[1].v)
        ELSE GetSomeNone

\* Mutant of get: a sequence that is bound and also starts a longer binding
\* counts as a prefix only (the longer binding is waited for).
get_PreferLonger(keymap, keys) ==
    LET es == entries_with_prefix(keymap, keys)
    IN  IF es = <<>> THEN GetNone
        ELSE IF Len(es) = 1 /\ SeqEq(es[1].k, keys) THEN GetSomeSome(es[1].v)
        ELSE GetSomeNone

\* Keymap::get: the first entry of entries_with_prefix, mapped to its action
\* when its key equals the queried keys.
get(keymap, keys) ==
    LET es == entries_with_prefix(keymap, keys)
    IN  IF es = <<>> THEN GetNone
        ELSE IF SeqEq(es[1].k, keys) THEN GetSomeSome(es[1].v)
        ELSE GetSomeNone

\* &buffer[i..] with a 0-based i
SliceFrom(buf, i) == SubSeq(buf, i + 1, Len(buf))
\* &buffer[..i]
SliceTo(buf, i) == SubSeq(buf, 1, i)

\* Mutant of FindMap: the scan starts at 1 instead of 0.
RECURSIVE FindMap_FromOne(_, _, _)
FindMap_FromOne(keymap, buf, i) ==
    LET j == IF i = 0 THEN 1 ELSE i
    IN  IF j >= Len(buf) THEN [skipped |-> Len(buf), action |-> NoAction]
        ELSE LET r == get(keymap, SliceFrom(buf, j))
             IN  IF r.tag # "None" THEN [skipped |-> j, action |-> r.action]
                 ELSE FindMap_FromOne(keymap, buf, j + 1)

\* Mutant of FindMap: unwrap_or((0, None)), so that an unmatched buffer is
\* kept instead of passed through.
RECURSIVE FindMap_NoFlush(_, _, _)
FindMap_NoFlush(keymap, buf, i) ==
    IF i >= Len(buf) THEN [skipped |-> 0, action |-> NoAction]
    ELSE LET r == get(keymap, SliceFrom(buf, i))
         IN  IF r.tag # "None" THEN [skipped |-> i, action |-> r.action]
             ELSE FindMap_NoFlush(keymap, buf, i + 1)

\* Mutant of FindMap: unwrap_or((1, None)), so that an unmatched buffer is
\* passed through one key at a time.
RECURSIVE FindMap_FlushOne(_, _, _)
FindMap_FlushOne(keymap, buf, i) ==
    IF i >= Len(buf) THEN [skipped |-> 1, action |-> NoAction]
    ELSE LET r == get(keymap, SliceFrom(buf, i))
         IN  IF r.tag # "None" THEN [skipped |-> i, action |-> r.action]
             ELSE FindMap_FlushOne(keymap, buf, i + 1)

\* Mutant of FindMap: the suffixes are tried from the shortest one.
RECURSIVE FindMapDown(_, _, _, _)
FindMapDown(keymap, buf, j, lo) ==
    IF j < lo THEN [skipped |-> Len(buf), action |-> NoAction]
    ELSE LET r == get(keymap, SliceFrom(buf, j))
         IN  IF r.tag # "None" THEN [skipped |-> j, action |-> r.action]
             ELSE FindMapDown(keymap, buf, j - 1, lo)

FindMap_Reverse(keymap, buf, i) == FindMapDown(keymap, buf, Len(buf) - 1, i)

\* (0..len).find_map(|i| keymap.get(&buffer[i..]).map(|action| (i, action)))
\*     .unwrap_or((len, None))
RECURSIVE FindMap(_, _, _)
FindMap(keymap, buf, i) ==
    IF i >= Len(buf) THEN [skipped |-> Len(buf), action |-> NoAction]
    ELSE LET r == get(keymap, SliceFrom(buf, i))
         IN  IF r.tag # "None" THEN [skipped |-> i, action |-> r.action]
             ELSE FindMap(keymap, buf, i + 1)

----------------------------------------------------------------------------
\* lib.rs: enum Mode, struct Keymaps, Keymaps::active_keymap
Mode == {"MessageList", "Normal", "Insert", "Command"}

active_keymap(kms, m) ==
    CASE m = "MessageList" -> kms.message_list
      [] m = "Normal" -> kms.normal
      [] m = "Insert" -> kms.insert
      [] m = "Command" -> kms.command

\* Keymaps::default(): the message-list bindings, every other keymap empty.
DefaultMessageList ==
    KeymapOf(<< << <<Key_q>>, "Quit" >>,
                << <<Key_j>>, "SelectRelative(1)" >>,
                << <<Key_k>>, "SelectRelative(-1)" >>,
                << <<Key_g, Key_g>>, "SelectFromStart(0)" >>,
                << <<Key_SG>>, "SelectFromEnd(0)" >>,
                << <<Key_d, Key_d>>, "DeleteSelectedMessage" >> >>)

KeymapsWith(message_list) ==
    [message_list |-> message_list, normal |-> KeymapDefault,
     insert |-> KeymapDefault, command |-> KeymapDefault]

\* The bindings the keymaps of the model are built from: every subset of
\* them is a keymap (overlapping bindings included).
BindingPool ==
    { << <<Key_j>>, "SelectRelative(1)" >>,
      << <<Key_g, Key_g>>, "SelectFromStart(0)" >>,
      << <<Key_d, Key_d>>, "DeleteSelectedMessage" >>,
      << <<Key_g>>, "Quit" >>,
      << <<Key_g, Key_d, Key_j>>, "SelectFromEnd(0)" >> }

\* The pairs of a set, as a list in some order
RECURSIVE SetToSeq(_)
SetToSeq(S) ==
    IF S = {} THEN <<>>
    ELSE LET x == CHOOSE y \in S : TRUE IN << x >> \o SetToSeq(S \ {x})

KeymapUniverse ==
    { KeymapOf(SetToSeq(S)) : S \in SUBSET BindingPool } \cup {DefaultMessageList}

\* The keymap of the scenario of the specification: j, gg and dd.
ExampleKeymap ==
    KeymapOf(<< << <<Key_j>>, "SelectRelative(1)" >>,
                << <<Key_g, Key_g>>, "SelectFromStart(0)" >>,
                << <<Key_d, Key_d>>, "DeleteSelectedMessage" >> >>)

\* The modes State.mode takes in one run: the message list alone (every
\* call of next gets the same keymap) or, for three of the keymaps, the
\* message list and insert mode.
SwitchUniverse == {DefaultMessageList, ExampleKeymap, KeymapOf(SetToSeq(BindingPool))}

ModeSets(km) ==
    IF km \in SwitchUniverse THEN { {"MessageList"}, {"MessageList", "Insert"} }
    ELSE { {"MessageList"} }

\* The key events a queried sequence is made of (Keymap::get alone).
QueryKeys == Keys \cup {Key_SG, KeyEvent(71, 0)}

\* Longest key sequence queried of Keymap::get alone.
MaxQuery == 3

RECURSIVE SeqsUpTo(_, _)
SeqsUpTo(S, n) ==
    IF n = 0 THEN { <<>> }
    ELSE LET shorter == SeqsUpTo(S, n - 1)
         IN  shorter \cup { Append(q, x) : q \in shorter, x \in S }

GetUnset == [tag |-> "Unset", action |-> NoAction]
NoKey == KeyEvent(0, 0)

----------------------------------------------------------------------------
VARIABLES
    keymaps,        \* State.keymaps
    modes,          \* the modes State.mode takes in this run
    mode,           \* State.mode: selects the keymap passed to next
    keys_rx,        \* KeymapHandler.keys_rx: the key events in the channel
    closed,         \* every sender of the key channel has been dropped
    buffer,         \* KeymapHandler.buffer
    buffer_skip,    \* KeymapHandler.buffer_skip
    pc,             \* "idle": no call of next pending; "wait": at its await;
                    \* "get": Keymap::get is called on its own
    result,         \* what the last call of next returned
    sent,           \* history: every key event sent, in order
    log,            \* history: one entry per outcome of next
    query,          \* the key sequence passed to Keymap::get on its own
    got,            \* what that call returned
    stopped,        \* State.stopped
    run_pc,         \* run_inner: "top" (the loop condition), "select" (at the
                    \* select), "ok" / "err" (returned Ok(()) / an error)
    seen,           \* number of outcomes of next run_inner has handled
    term_events,    \* the channel of the other terminal events
    term_closed,    \* every sender of that channel has been dropped
    messages_rx,    \* the channel of messages passed to run_inner
    messages_closed,\* every sender of that channel has been dropped
    timer,          \* ms the timeout of the pending next has been running
    since_key,      \* ms run_inner has waited since the last key event
    thread_pc,      \* event_handler_inner: "loop" (the loop condition),
                    \* "poll", "read", "done" (returned)
    tty,            \* the terminal events not read yet
    events_read,    \* history: the events crossterm::event::read returned
    rx_dropped,     \* the receivers ("key", "other") that have been dropped
    messages,       \* MessageListView.messages: the keys of the BTreeMap
    cursor,         \* MessageListView.cursor
    list_selected,  \* MessageListView.list_state: ListState.selected
    dirty,          \* MessageListView.dirty
    overflow_checks,\* the build: TRUE when integer overflow panics (debug)
    panicked,       \* an operation of the view has panicked
    last            \* history: the last operation of the view, its
                    \* argument and the view it was applied to

loopVars == << stopped, run_pc, seen, term_events, term_closed, messages_rx,
               messages_closed, timer, since_key >>

threadVars == << thread_pc, tty, events_read, rx_dropped >>

listVars == << messages, cursor, list_selected, dirty, overflow_checks,
               panicked, last >>

vars == << keymaps, modes, mode, keys_rx, closed, buffer, buffer_skip, pc,
           result, sent, log, query, got, loopVars, threadVars, listVars >>

\* state.active_keymap()
keymap == active_keymap(keymaps, mode)

\* Some((passthrough, action)), None (kind "eos"), or no value at all
Outcome(kind, pass, action) == [kind |-> kind, pass |-> pass, action |-> action]

\* A log entry: the outcome, the mode of the call, the buffer at its await
\* and the key event received (NoKey for a timeout or the end of the stream).
Entry(res, key) ==
    [kind |-> res.kind, pass |-> res.pass, action |-> res.action,
     mode |-> mode, before |-> buffer, key |-> key]

\* run_inner before its loop: State::default, the channels just created.
InitLoopVars ==
    /\ stopped = FALSE
    /\ run_pc = "top"
    /\ seen = 0
    /\ term_events = <<>>
    /\ term_closed = FALSE
    /\ messages_rx = <<>>
    /\ messages_closed = FALSE
    /\ timer = 0
    /\ since_key = 0

\* event_handler: the thread just spawned, both receivers alive.
InitThreadVars ==
    /\ thread_pc = "loop"
    /\ tty = <<>>
    /\ events_read = <<>>
    /\ rx_dropped = {}

\* Option<T>
None == [tag |-> "None"]
Some(x) == [tag |-> "Some", value |-> x]

\* No operation of the view has been called yet.
NoCall == [op |-> "new", arg |-> None, messages |-> {}, cursor |-> None,
           list_selected |-> Some(0), dirty |-> FALSE]

\* MessageListView::default
InitView ==
    /\ messages = {}
    /\ cursor = None
    /\ list_selected = Some(0)
    /\ dirty = FALSE
    /\ panicked = FALSE
    /\ last = NoCall

\* State::default in a build without overflow checks.
InitListVars ==
    /\ InitView
    /\ overflow_checks = FALSE

\* KeymapHandler::new, State::default
Init ==
    /\ keymaps \in { KeymapsWith(km) : km \in KeymapUniverse }
    /\ modes \in ModeSets(keymaps.message_list)
    /\ mode = "MessageList"
    /\ keys_rx = <<>>
    /\ closed = FALSE
    /\ buffer = <<>>
    /\ buffer_skip = 0
    /\ pc = "idle"
    /\ result = Outcome("none", <<>>, NoAction)
    /\ sent = <<>>
    /\ log = <<>>
    /\ query = <<>>
    /\ got = GetUnset
    /\ InitLoopVars
    /\ InitThreadVars
    /\ InitListVars

\* The input thread sends a key event: key_event_tx.send(ev.into())
Send(k) ==
    /\ pc # "get"
    /\ ~closed
    /\ Len(sent) < MaxSent
    /\ keys_rx' = Append(keys_rx, k)
    /\ sent' = Append(sent, k)
    /\ UNCHANGED << loopVars, threadVars, listVars >>
    /\ UNCHANGED << keymaps, modes, mode, closed, buffer, buffer_skip, pc,
                    result, log, query, got >>

\* The last sender of the key channel is dropped.
Close ==
    /\ pc # "get"
    /\ ~closed
    /\ closed' = TRUE
    /\ UNCHANGED << loopVars, threadVars, listVars >>
    /\ UNCHANGED << keymaps, modes, mode, keys_rx, buffer, buffer_skip, pc,
                    result, sent, log, query, got >>

\* Mutant of NextBegin: the used keys are not drained from the buffer.
NextBegin_NoDrain(m) ==
    /\ pc = "idle"
    /\ m \in modes
    /\ mode' = m
    /\ buffer' = buffer
    /\ buffer_skip' = 0
    /\ pc' = "wait"
    /\ UNCHANGED << loopVars, threadVars, listVars >>
    /\ UNCHANGED << keymaps, modes, keys_rx, closed, result, sent, log, query, got >>

\* Mutant of NextBegin: buffer_skip is not reset after the drain.
NextBegin_NoReset(m) ==
    /\ pc = "idle"
    /\ m \in modes
    /\ mode' = m
    /\ buffer' = SliceFrom(buffer, buffer_skip)
    /\ buffer_skip' = buffer_skip
    /\ pc' = "wait"
    /\ UNCHANGED << loopVars, threadVars, listVars >>
    /\ UNCHANGED << keymaps, modes, keys_rx, closed, result, sent, log, query, got >>

\* next, up to its await: drain the used keys, reset buffer_skip.
NextBegin(m) ==
    /\ pc = "idle"
    /\ m \in modes
    /\ mode' = m
    /\ buffer' = SliceFrom(buffer, buffer_skip)
    /\ buffer_skip' = 0
    /\ pc' = "wait"
    /\ UNCHANGED << loopVars, threadVars, listVars >>
    /\ UNCHANGED << keymaps, modes, keys_rx, closed, result, sent, log, query, got >>

\* Mutant of NextRecvKey: buffer_skip is not raised to the buffer length when
\* an action is returned, so the matched keys stay in the buffer.
NextRecvKey_NoClear ==
    /\ pc = "wait"
    /\ keys_rx # <<>>
    /\ LET event == Head(keys_rx)
           buf == Append(buffer, event)
           found == FindMap(keymap, buf, 0)
           res == Outcome("key", SliceTo(buf, found.skipped), found.action)
       IN  /\ keys_rx' = Tail(keys_rx)
           /\ buffer' = buf
           /\ buffer_skip' = found.skipped
           /\ result' = res
           /\ log' = Append(log, Entry(res, event))
    /\ pc' = "idle"
    /\ UNCHANGED << loopVars, threadVars, listVars >>
    /\ UNCHANGED << keymaps, modes, mode, closed, sent, query, got >>

\* Mutant of NextRecvKey: the removal of the skipped keys is not deferred to
\* the next call (buffer_skip stays 0 unless an action is returned).
NextRecvKey_NoSkip ==
    /\ pc = "wait"
    /\ keys_rx # <<>>
    /\ LET event == Head(keys_rx)
           buf == Append(buffer, event)
           found == FindMap(keymap, buf, 0)
           res == Outcome("key", SliceTo(buf, found.skipped), found.action)
       IN  /\ keys_rx' = Tail(keys_rx)
           /\ buffer' = buf
           /\ buffer_skip' = IF found.action # NoAction THEN Len(buf) ELSE 0
           /\ result' = res
           /\ log' = Append(log, Entry(res, event))
    /\ pc' = "idle"
    /\ UNCHANGED << loopVars, threadVars, listVars >>
    /\ UNCHANGED << keymaps, modes, mode, closed, sent, query, got >>

\* Ok(Some(event)): recv yields the oldest key event of the channel.
NextRecvKey ==
    /\ pc = "wait"
    /\ keys_rx # <<>>
    /\ LET event == Head(keys_rx)
           buf == Append(buffer, event)
           found == FindMap(keymap, buf, 0)
           res == Outcome("key", SliceTo(buf, found.skipped), found.action)
       IN  /\ keys_rx' = Tail(keys_rx)
           /\ buffer' = buf
           /\ buffer_skip' = IF found.action # NoAction THEN Len(buf) ELSE found.skipped
           /\ result' = res
           /\ log' = Append(log, Entry(res, event))
    /\ pc' = "idle"
    /\ UNCHANGED << loopVars, threadVars, listVars >>
    /\ UNCHANGED << keymaps, modes, mode, closed, sent, query, got >>

\* Mutant of NextRecvNone: the end of the stream is reported as soon as the
\* channel is closed, the key events still queued notwithstanding.
NextRecvNone_DropsQueued ==
    /\ pc = "wait"
    /\ closed
    /\ result' = Outcome("eos", <<>>, NoAction)
    /\ log' = IF log # <<>> /\ log[Len(log)].kind = "eos" THEN log
              ELSE Append(log, Entry(result', NoKey))
    /\ pc' = "idle"
    /\ UNCHANGED << loopVars, threadVars, listVars >>
    /\ UNCHANGED << keymaps, modes, mode, keys_rx, closed, buffer, buffer_skip,
                    sent, query, got >>

\* Ok(None): the channel is closed and empty.
NextRecvNone ==
    /\ pc = "wait"
    /\ keys_rx = <<>>
    /\ closed
    /\ result' = Outcome("eos", <<>>, NoAction)
    /\ log' = IF log # <<>> /\ log[Len(log)].kind = "eos" THEN log
              ELSE Append(log, Entry(result', NoKey))
    /\ pc' = "idle"
    /\ UNCHANGED << loopVars, threadVars, listVars >>
    /\ UNCHANGED << keymaps, modes, mode, keys_rx, closed, buffer, buffer_skip,
                    sent, query, got >>

\* Mutant of NextTimeout: recv is wrapped in the timeout whether or not the
\* buffer is empty.
NextTimeout_EmptyToo ==
    /\ pc = "wait"
    /\ keys_rx = <<>>
    /\ ~closed
    /\ buffer_skip' = Len(buffer)
    /\ result' = Outcome("timeout", buffer, NoAction)
    /\ log' = Append(log, Entry(result', NoKey))
    /\ pc' = "idle"
    /\ UNCHANGED << loopVars, threadVars, listVars >>
    /\ UNCHANGED << keymaps, modes, mode, keys_rx, closed, buffer, sent, query, got >>

\* Err(_timeout): the buffer is not empty and recv stayed pending for
\* keymap.timeout (recv is ready at once when the channel holds a key event
\* or is closed).
NextTimeout ==
    /\ pc = "wait"
    /\ buffer # <<>>
    /\ keys_rx = <<>>
    /\ ~closed
    /\ buffer_skip' = Len(buffer)
    /\ result' = Outcome("timeout", buffer, NoAction)
    /\ log' = Append(log, Entry(result', NoKey))
    /\ pc' = "idle"
    /\ UNCHANGED << loopVars, threadVars, listVars >>
    /\ UNCHANGED << keymaps, modes, mode, keys_rx, closed, buffer, sent, query, got >>

\* Mutant of NextCancel: a key event that recv had taken from the channel is
\* dropped with the pending call.
NextCancel_LosesKey ==
    /\ pc = "wait"
    /\ keys_rx' = IF keys_rx = <<>> THEN keys_rx ELSE Tail(keys_rx)
    /\ result' = Outcome("cancelled", <<>>, NoAction)
    /\ pc' = "idle"
    /\ UNCHANGED << loopVars, threadVars, listVars >>
    /\ UNCHANGED << keymaps, modes, mode, closed, buffer, buffer_skip,
                    sent, log, query, got >>

\* The pending call is dropped at its await (another branch of the select of
\* run_inner completed first): it returns nothing.
NextCancel ==
    /\ pc = "wait"
    /\ result' = Outcome("cancelled", <<>>, NoAction)
    /\ pc' = "idle"
    /\ UNCHANGED << loopVars, threadVars, listVars >>
    /\ UNCHANGED << keymaps, modes, mode, keys_rx, closed, buffer, buffer_skip,
                    sent, log, query, got >>

Next ==
    \/ \E k \in Keys : Send(k)
    \/ Close
    \/ \E m \in Mode : NextBegin(m)
    \/ NextRecvKey
    \/ NextRecvNone
    \/ NextTimeout
    \/ NextCancel

Spec == Init /\ [][Next]_vars

----------------------------------------------------------------------------
\* Keymap::get on its own: any keymap of the universe, any key sequence.
InitGet ==
    /\ keymaps \in { KeymapsWith(km) : km \in KeymapUniverse }
    /\ modes = {"MessageList"}
    /\ mode = "MessageList"
    /\ keys_rx = <<>>
    /\ closed = FALSE
    /\ buffer = <<>>
    /\ buffer_skip = 0
    /\ pc = "get"
    /\ result = Outcome("none", <<>>, NoAction)
    /\ sent = <<>>
    /\ log = <<>>
    /\ query \in SeqsUpTo(QueryKeys, MaxQuery)
    /\ got = GetUnset
    /\ InitLoopVars
    /\ InitThreadVars
    /\ InitListVars

GetCall ==
    /\ pc = "get"
    /\ got = GetUnset
    /\ got' = get(keymap, query)
    /\ UNCHANGED << loopVars, threadVars, listVars >>
    /\ UNCHANGED << keymaps, modes, mode, keys_rx, closed, buffer, buffer_skip,
                    pc, result, sent, log, query >>

NextGet == GetCall

SpecGet == InitGet /\ [][NextGet]_vars

----------------------------------------------------------------------------
\* What the properties below are stated with.

\* The key sequences a keymap binds, and the action bound to one of them.
BoundSeqs(km) == { km.keys[i].k : i \in 1..Len(km.keys) }
BoundAction(km, K) == (CHOOSE e \in { km.keys[i] : i \in 1..Len(km.keys) } : e.k = K).v

IsPrefix(S, K) == Len(S) <= Len(K) /\ SubSeq(K, 1, Len(S)) = S
IsStrictPrefix(S, K) == IsPrefix(S, K) /\ Len(S) < Len(K)

\* The three outcomes of the lookup contract: Matched(action), Prefix, NoMatch.
Classify(km, S) ==
    IF S \in BoundSeqs(km) THEN GetSomeSome(BoundAction(km, S))
    ELSE IF \E K \in BoundSeqs(km) : IsPrefix(S, K) THEN GetSomeNone
    ELSE GetNone

\* No bound sequence is a prefix of another.
NonOverlapping(km) ==
    \A K \in BoundSeqs(km), K2 \in BoundSeqs(km) : ~IsStrictPrefix(K, K2)

\* The keymap passed to the call of a log entry.
KeymapAt(e) == active_keymap(keymaps, e.mode)

\* The buffer of a key step after the push.
Pushed(e) == Append(e.before, e.key)

\* The keys the action of a step consumed.
Consumed(e) ==
    IF e.action # NoAction THEN SliceFrom(Pushed(e), Len(e.pass)) ELSE <<>>

\* Per step, the passthrough slice followed by the keys the action consumed.
RECURSIVE Outputs(_)
Outputs(l) ==
    IF l = <<>> THEN <<>>
    ELSE Outputs(SubSeq(l, 1, Len(l) - 1)) \o l[Len(l)].pass \o Consumed(l[Len(l)])

\* The keys the buffer holds at the next await.
Retained == SliceFrom(buffer, buffer_skip)

\* log[a..b] is a feed from an empty buffer: key steps only (no timeout in
\* between), each with the keymap of the same mode.
Feed(a, b) ==
    /\ 1 <= a /\ a <= b /\ b <= Len(log)
    /\ log[a].before = <<>>
    /\ \A i \in a..b : log[i].kind = "key" /\ log[i].mode = log[a].mode

FeedKeys(a, b) == [i \in 1..(b - a + 1) |-> log[a + i - 1].key]

----------------------------------------------------------------------------
\* C1: the passthrough slices and the keys consumed by the actions of the
\* successive calls of next, concatenated, are the input key sequence: once
\* next has reported the end of the stream, every key sent has been returned,
\* the keys still buffered when the channel closed included.
C1_AllKeysReturned ==
    (log # <<>> /\ log[Len(log)].kind = "eos") => Outputs(log) = sent

----------------------------------------------------------------------------
\* C2: Keymap::get returns Some(Some(a)) iff a binding equals the queried
\* sequence (a its action), Some(None) iff none equals it and some binding
\* starts with it, None iff no binding starts with it.
C2_GetClassifies ==
    got # GetUnset => got = Classify(keymap, query)

\* get has answered Some(Some(a)) for a sequence that is also a strict prefix
\* of another binding, and Some(None) is answered for others.
C2_Witness ==
    /\ got.tag = "SomeSome"
    /\ \E K \in BoundSeqs(keymap) : IsStrictPrefix(query, K)

----------------------------------------------------------------------------
\* The log only grows and its entries never change, so every entry is the
\* last one in the state its step leads to: a property of the steps is
\* stated of the entry (or of the feed) the log ends with.
Last == Len(log)

\* C3 as stated: with a bound K that is a strict prefix of a bound K2,
\* feeding K from an empty buffer returns no action, the timeout that follows
\* passes exactly K through, and feeding K2 in full returns the action of K2
\* with no passthrough.
C3_PrefixWaitsForLonger ==
    \A a \in 1..Last :
        (Feed(a, Last) \/ Feed(a, Last - 1)) =>
        LET km == KeymapAt(log[a])
        IN  \A K \in BoundSeqs(km), K2 \in BoundSeqs(km) :
                IsStrictPrefix(K, K2) =>
                    /\ (Feed(a, Last) /\ FeedKeys(a, Last) = K) =>
                           \A i \in a..Last : log[i].action = NoAction
                    /\ (Feed(a, Last - 1) /\ FeedKeys(a, Last - 1) = K
                                          /\ log[Last].kind = "timeout") =>
                           log[Last].pass = K
                    /\ (Feed(a, Last) /\ FeedKeys(a, Last) = K2) =>
                           /\ log[Last].action = BoundAction(km, K2)
                           /\ \A i \in a..Last : log[i].pass = <<>>

\* C3, amended: with a bound K that is a strict prefix of a bound K2 (one
\* keymap for every call), feeding K from an empty buffer returns an action no
\* later than the step that receives the last key of K (the action of K, with
\* no passthrough, when no strict prefix of K is bound), so that no timeout
\* passes K through; and feeding K2 in full never matches K2 as a whole: the
\* step that receives its last key works on a buffer shorter than K2.
C3_ShorterBindingFires ==
    \A a \in 1..Last :
        (Feed(a, Last) \/ Feed(a, Last - 1)) =>
        LET km == KeymapAt(log[a])
        IN  \A K \in BoundSeqs(km), K2 \in BoundSeqs(km) :
                IsStrictPrefix(K, K2) =>
                    /\ (Feed(a, Last) /\ FeedKeys(a, Last) = K) =>
                           /\ \E i \in a..Last : log[i].action # NoAction
                           /\ (\A P \in BoundSeqs(km) : ~IsStrictPrefix(P, K)) =>
                                  /\ log[Last].action = BoundAction(km, K)
                                  /\ \A i \in a..Last : log[i].pass = <<>>
                                  /\ \A i \in a..(Last - 1) : log[i].action = NoAction
                    /\ (Feed(a, Last - 1) /\ FeedKeys(a, Last - 1) = K
                                          /\ log[Last].kind = "timeout") =>
                           log[Last].pass # K
                    /\ (Feed(a, Last) /\ FeedKeys(a, Last) = K2) =>
                           Len(log[Last].before) + 1 < Len(K2)

\* The keys of a K2 with a bound strict prefix have been fed from an empty
\* buffer, without a timeout in between.
C3_Witness ==
    \E a \in 1..Last :
        /\ Feed(a, Last)
        /\ \E K \in BoundSeqs(KeymapAt(log[a])), K2 \in BoundSeqs(KeymapAt(log[a])) :
               IsStrictPrefix(K, K2) /\ FeedKeys(a, Last) = K2

----------------------------------------------------------------------------
\* C4: with a keymap in which no bound sequence is a prefix of another,
\* feeding a bound K from an empty buffer, one key per call: every call but
\* the last returns an empty passthrough and no action, the last one an
\* empty passthrough and the action bound to K.
C4_NonOverlappingMatch ==
    \A a \in 1..Last :
        (/\ Feed(a, Last)
         /\ FeedKeys(a, Last) \in BoundSeqs(KeymapAt(log[a]))
         /\ NonOverlapping(KeymapAt(log[a]))) =>
            /\ \A i \in a..(Last - 1) : log[i].pass = <<>> /\ log[i].action = NoAction
            /\ log[Last].pass = <<>>
            /\ log[Last].action = BoundAction(KeymapAt(log[a]), FeedKeys(a, Last))

\* A bound sequence of three keys of a non-overlapping keymap with another
\* binding has been fed.
C4_Witness ==
    \E a \in 1..Last :
        /\ Feed(a, Last) /\ Last = a + 2
        /\ NonOverlapping(KeymapAt(log[a]))
        /\ Len(KeymapAt(log[a]).keys) >= 2
        /\ FeedKeys(a, Last) \in BoundSeqs(KeymapAt(log[a]))

----------------------------------------------------------------------------
\* C5: a key that neither is nor starts a binding, received with an empty
\* buffer, is returned as the passthrough of that same call, with no action,
\* and the buffer is empty at the next await.
C5_UnboundKeyPassesAtOnce ==
    (/\ log # <<>>
     /\ log[Last].kind = "key"
     /\ log[Last].before = <<>>
     /\ Classify(KeymapAt(log[Last]), << log[Last].key >>) = GetNone) =>
        /\ log[Last].pass = << log[Last].key >>
        /\ log[Last].action = NoAction
        /\ Retained = <<>>

\* Such a key has been received by a keymap that binds something, and the
\* next call is at its await.
C5_Witness ==
    /\ log # <<>>
    /\ log[Last].kind = "key"
    /\ log[Last].before = <<>>
    /\ KeymapAt(log[Last]).keys # <<>>
    /\ Classify(KeymapAt(log[Last]), << log[Last].key >>) = GetNone
    /\ pc = "wait"

----------------------------------------------------------------------------
\* C6 as stated: no outcome of next has both a non-empty passthrough slice
\* and an action.
C6_NeverBoth ==
    log # <<>> => ~(log[Last].pass # <<>> /\ log[Last].action # NoAction)

\* C6, amended: an outcome has both a non-empty passthrough slice and an
\* action only on a key step whose appended key completes a binding that
\* starts at an offset i > 0 of the buffer: the passthrough is the i keys
\* before the match, the rest of the buffer is bound to the returned action,
\* and no suffix starting earlier is a match or a prefix.  Timeout and
\* end-of-stream outcomes carry no action.
C6_BothOnlyOnLaterMatch ==
    log # <<>> =>
        LET e == log[Last]
            km == KeymapAt(e)
            i == Len(e.pass)
        IN  /\ e.kind # "key" => e.action = NoAction
            /\ (e.pass # <<>> /\ e.action # NoAction) =>
                   /\ e.kind = "key"
                   /\ 0 < i /\ i < Len(Pushed(e))
                   /\ e.pass = SliceTo(Pushed(e), i)
                   /\ Classify(km, SliceFrom(Pushed(e), i)) = GetSomeSome(e.action)
                   /\ \A j \in 0..(i - 1) : Classify(km, SliceFrom(Pushed(e), j)) = GetNone

\* A step has returned a passthrough together with an action, the match
\* being two keys long.
C6_Witness ==
    /\ log # <<>>
    /\ log[Last].pass # <<>>
    /\ log[Last].action # NoAction
    /\ Len(Pushed(log[Last])) = Len(log[Last].pass) + 2

----------------------------------------------------------------------------
\* C7: on a key step whose first suffix buffer[i..] that is not NoMatch is
\* Matched(action), the step returns passthrough buffer[0..i] and that
\* action, and the whole buffer is gone at the next await.  With the keymap
\* {j, gg, dd}, 'd' then 'j' with no timeout in between returns, on the step
\* of 'j', passthrough ['d'] and the action of j.
C7_MatchedSuffix ==
    /\ (log # <<>> /\ log[Last].kind = "key") =>
           LET e == log[Last]
               km == KeymapAt(e)
               B == Pushed(e)
           IN  \A i \in 0..(Len(B) - 1) :
                   (/\ Classify(km, SliceFrom(B, i)).tag = "SomeSome"
                    /\ \A j \in 0..(i - 1) : Classify(km, SliceFrom(B, j)) = GetNone) =>
                       /\ e.pass = SliceTo(B, i)
                       /\ e.action = BoundAction(km, SliceFrom(B, i))
                       /\ Retained = <<>>
    /\ (/\ Feed(Last - 1, Last)
        /\ KeymapAt(log[Last]) = ExampleKeymap
        /\ FeedKeys(Last - 1, Last) = << Key_d, Key_j >>) =>
           /\ log[Last - 1].pass = <<>> /\ log[Last - 1].action = NoAction
           /\ log[Last].pass = << Key_d >>
           /\ log[Last].action = "SelectRelative(1)"

\* 'd' then 'j' have been fed to the keymap {j, gg, dd}, and the next call is
\* at its await.
C7_Witness ==
    /\ Feed(Last - 1, Last)
    /\ KeymapAt(log[Last]) = ExampleKeymap
    /\ FeedKeys(Last - 1, Last) = << Key_d, Key_j >>
    /\ pc = "wait"

----------------------------------------------------------------------------
\* C8: a timeout outcome returns the whole buffer as passthrough, with no
\* action; the buffer is empty at the following await; and the buffer the
\* timeout fires on is not empty and is a strict prefix of a binding of the
\* keymap passed to that call.
C8_TimeoutFlushesPrefix ==
    (log # <<>> /\ log[Last].kind = "timeout") =>
        /\ log[Last].pass = log[Last].before
        /\ log[Last].action = NoAction
        /\ Retained = <<>>
        /\ log[Last].before # <<>>
        /\ \E K \in BoundSeqs(KeymapAt(log[Last])) : IsStrictPrefix(log[Last].before, K)

----------------------------------------------------------------------------
\* The keys of the key steps of the log, in order.
RECURSIVE Received(_)
Received(l) ==
    IF l = <<>> THEN <<>>
    ELSE Received(SubSeq(l, 1, Len(l) - 1)) \o
         (IF l[Len(l)].kind = "key" THEN << l[Len(l)].key >> ELSE <<>>)

\* C9: a call of next returns None exactly when the channel is closed and
\* every key event sent has been received, in order; it does so whether the
\* buffer is empty or not; and once a call has returned None, every later
\* call returns None.
C9_EndOfStream ==
    [][ (pc = "wait" /\ pc' = "idle" /\ result'.kind # "cancelled") =>
            /\ (result'.kind = "eos") <=> (closed /\ keys_rx = <<>>)
            /\ (result'.kind = "eos") => Received(log) = sent
            /\ (result'.kind = "eos") => (buffer' = buffer /\ buffer_skip' = buffer_skip)
            /\ (\E i \in 1..Len(log) : log[i].kind = "eos") => result'.kind = "eos"
      ]_vars

\* None has been returned with keys still in the buffer, after two keys had
\* been sent.
C9_Witness ==
    /\ result.kind = "eos"
    /\ buffer # <<>>
    /\ Len(sent) >= 2

----------------------------------------------------------------------------
\* C10: at every await of next (the deferred prefix removed), whichever
\* keymap each call is given, the buffer is empty or a strict prefix of a
\* binding of the keymap passed to the call.
C10_BufferIsPrefix ==
    pc = "wait" =>
        \/ buffer = <<>>
        \/ \E K \in BoundSeqs(keymap) : IsStrictPrefix(buffer, K)

----------------------------------------------------------------------------
\* The length of the longest bound sequence of a keymap (0 for an empty one).
LongestBinding(km) ==
    IF km.keys = <<>> THEN 0
    ELSE CHOOSE n \in { Len(K) : K \in BoundSeqs(km) } :
             \A K \in BoundSeqs(km) : Len(K) <= n

Max(a, b) == IF a >= b THEN a ELSE b

\* Every call of next that has returned got the keymap of the current mode.
SameKeymapSoFar == \A i \in 1..Len(log) : log[i].mode = mode

----------------------------------------------------------------------------
\* log[a..b] and log[(b+1)..Last] are the same keys, received by key steps
\* with the keymap of the same mode: a feed from an empty buffer whose last
\* step returned an action, and the same keys fed again right after it.
FedAgain(a, b) ==
    /\ Feed(a, b)
    /\ b < Last /\ Last - b = b - a + 1
    /\ log[b].action # NoAction
    /\ \A i \in (b + 1)..Last :
           /\ log[i].kind = "key"
           /\ log[i].mode = log[a].mode
           /\ log[i].key = log[i - (b - a + 1)].key

\* C12: after a step that returns an action, the next await starts with an
\* empty buffer and buffer_skip = 0; and a bound sequence that was fed from
\* an empty buffer and ended in an action, fed again (same keymap, no
\* timeout in between), returns on each step the passthrough and the action
\* it returned the first time.
C12_NoResidualState ==
    /\ (pc = "wait" /\ log # <<>> /\ log[Last].action # NoAction) =>
           buffer = <<>> /\ buffer_skip = 0
    /\ \A a \in 1..Last, b \in 1..Last :
           (FedAgain(a, b) /\ FeedKeys(a, b) \in BoundSeqs(KeymapAt(log[a]))) =>
               \A i \in (b + 1)..Last :
                   /\ log[i].pass = log[i - (b - a + 1)].pass
                   /\ log[i].action = log[i - (b - a + 1)].action
                   /\ log[i].before = log[i - (b - a + 1)].before

\* A bound sequence that is a strict prefix of another binding has been fed
\* twice, each time returning its action, and the next call is at its await.
C12_Witness ==
    /\ pc = "wait"
    /\ \E a \in 1..Last, b \in 1..Last :
           /\ FedAgain(a, b)
           /\ FeedKeys(a, b) \in BoundSeqs(KeymapAt(log[a]))
           /\ \E K \in BoundSeqs(KeymapAt(log[a])) : IsStrictPrefix(FeedKeys(a, b), K)
           /\ log[Last].action # NoAction

----------------------------------------------------------------------------
\* C13: on a key step, the number of keys reported as skipped is the smallest
\* offset i in 0..len-1 whose suffix buffer[i..] is not NoMatch (every suffix
\* starting before it is NoMatch), or len when there is none, and the action
\* returned is the one that suffix classifies to, whatever a suffix starting
\* later is bound to.
C13_SmallestOffset ==
    (log # <<>> /\ log[Last].kind = "key") =>
        LET e == log[Last]
            km == KeymapAt(e)
            B == Pushed(e)
            i == Len(e.pass)
        IN  /\ i <= Len(B)
            /\ \A j \in 0..(i - 1) : Classify(km, SliceFrom(B, j)) = GetNone
            /\ i < Len(B) =>
                   /\ Classify(km, SliceFrom(B, i)) # GetNone
                   /\ e.action = Classify(km, SliceFrom(B, i)).action
            /\ i = Len(B) => e.action = NoAction

\* The whole buffer of three keys is bound, its last key alone is bound to
\* another action, and the step has returned.
C13_Witness ==
    /\ log # <<>>
    /\ log[Last].kind = "key"
    /\ Len(Pushed(log[Last])) = 3
    /\ Classify(KeymapAt(log[Last]), Pushed(log[Last])).tag = "SomeSome"
    /\ Classify(KeymapAt(log[Last]), << log[Last].key >>).tag = "SomeSome"
    /\ Classify(KeymapAt(log[Last]), << log[Last].key >>)
           # Classify(KeymapAt(log[Last]), Pushed(log[Last]))

----------------------------------------------------------------------------
\* On the key step of entry e, buffer[i..] is the first suffix that is not
\* NoMatch, and it is a Prefix.
FirstIsPrefix(e, i) ==
    /\ e.kind = "key"
    /\ i \in 0..(Len(Pushed(e)) - 1)
    /\ Classify(KeymapAt(e), SliceFrom(Pushed(e), i)) = GetSomeNone
    /\ \A j \in 0..(i - 1) : Classify(KeymapAt(e), SliceFrom(Pushed(e), j)) = GetNone

\* C14: on a key step whose first suffix buffer[i..] that is not NoMatch is a
\* Prefix, the step returns passthrough buffer[0..i] and no action; at the
\* next await the buffer is the old buffer[i..], in order (the step that
\* follows works on exactly these keys); and the keys buffer[0..i] are not
\* returned again: the keys returned so far, the keys retained and the keys
\* still queued are, in order, the keys sent.
C14_PrefixKeepsSuffix ==
    /\ log # <<>> =>
           \A i \in 0..Len(log[Last].before) :
               FirstIsPrefix(log[Last], i) =>
                   /\ log[Last].pass = SliceTo(Pushed(log[Last]), i)
                   /\ log[Last].action = NoAction
                   /\ Retained = SliceFrom(Pushed(log[Last]), i)
                   /\ pc = "wait" => buffer = SliceFrom(Pushed(log[Last]), i)
    /\ Last >= 2 =>
           \A i \in 0..Len(log[Last - 1].before) :
               FirstIsPrefix(log[Last - 1], i) =>
                   log[Last].before = SliceFrom(Pushed(log[Last - 1]), i)
    /\ Outputs(log) \o Retained \o keys_rx = sent

\* A step has passed the first key of its buffer through and kept the rest
\* as a prefix, and the next call is at its await.
C14_Witness ==
    /\ log # <<>>
    /\ \E i \in 1..Len(log[Last].before) : FirstIsPrefix(log[Last], i)
    /\ pc = "wait"

----------------------------------------------------------------------------
\* C15: on a key step where no suffix of the buffer, down to the newest key
\* alone, is Matched or Prefix, that one step returns the whole buffer, the
\* newest key and the keys held before it, as passthrough with no action, and
\* the buffer is empty at the next await.
C15_WholeBufferFlush ==
    (/\ log # <<>>
     /\ log[Last].kind = "key"
     /\ \A j \in 0..Len(log[Last].before) :
            Classify(KeymapAt(log[Last]), SliceFrom(Pushed(log[Last]), j)) = GetNone) =>
        /\ log[Last].pass = Pushed(log[Last])
        /\ log[Last].action = NoAction
        /\ Retained = <<>>
        /\ pc = "wait" => buffer = <<>>

\* A key that matches nothing has arrived while two keys were held, the
\* keymap being the same as when they were kept, and the next call is at its
\* await.
C15_Witness ==
    /\ Feed(Last - 2, Last)
    /\ Len(log[Last].before) = 2
    /\ \A j \in 0..2 :
           Classify(KeymapAt(log[Last]), SliceFrom(Pushed(log[Last]), j)) = GetNone
    /\ pc = "wait"

----------------------------------------------------------------------------
\* C16: a call of next whose buffer is empty at its await (the deferred
\* prefix removed) returns only with a key event received or with the end of
\* the stream, never because of the timeout; a timeout outcome carries the
\* buffer, which is not empty, as its passthrough, so that no timeout returns
\* an empty passthrough with no action.
C16_NoTimeoutOnEmptyBuffer ==
    [][ (pc = "wait" /\ pc' = "idle" /\ result'.kind # "cancelled") =>
            /\ buffer = <<>> =>
                   \/ result'.kind = "key" /\ keys_rx # <<>>
                   \/ result'.kind = "eos" /\ closed /\ keys_rx = <<>>
            /\ result'.kind = "timeout" =>
                   /\ buffer # <<>>
                   /\ result'.pass = buffer
                   /\ result'.pass # <<>>
      ]_vars

\* After a timeout has flushed the buffer, the next call is at its await with
\* an empty buffer, no key queued and the channel open: only a key or the
\* closing of the channel ends it.
C16_Witness ==
    /\ pc = "wait"
    /\ buffer = <<>>
    /\ keys_rx = <<>>
    /\ ~closed
    /\ log # <<>>
    /\ log[Last].kind = "timeout"

----------------------------------------------------------------------------
\* The keys the step of a log entry left in the buffer for the next await.
RetainedAfter(e) ==
    IF e.kind = "key"
    THEN IF e.action # NoAction THEN <<>> ELSE SliceFrom(Pushed(e), Len(e.pass))
    ELSE IF e.kind = "timeout" THEN <<>>
    ELSE e.before

\* C19: a call of next that is dropped at its await changes nothing but the
\* deferred removal: up to the await the used prefix is drained and
\* buffer_skip reset, the drop itself leaves the channel, the buffer and
\* buffer_skip alone; so the retained keys are, whatever calls were dropped
\* since, the keys the last completed step kept, in order; and the keys
\* returned, retained and queued are, in order, the keys sent (none lost,
\* none returned twice).
C19_CancelIsSafe ==
    [][ /\ (pc = "idle" /\ pc' = "wait") =>
               /\ buffer' = SliceFrom(buffer, buffer_skip)
               /\ buffer_skip' = 0
               /\ keys_rx' = keys_rx /\ log' = log /\ sent' = sent
        /\ (pc = "wait" /\ pc' = "idle" /\ result'.kind = "cancelled") =>
               /\ buffer' = buffer
               /\ buffer_skip = 0 /\ buffer_skip' = 0
               /\ keys_rx' = keys_rx /\ log' = log /\ sent' = sent
        /\ Retained' = IF log' = <<>> THEN <<>> ELSE RetainedAfter(log'[Len(log')])
        /\ Outputs(log') \o Retained' \o keys_rx' = sent'
      ]_vars

\* A call has been dropped at its await with a key kept in the buffer and a
\* key queued in the channel, after an earlier step returned a passthrough
\* whose removal had been deferred.
C19_Witness ==
    /\ result.kind = "cancelled"
    /\ pc = "idle"
    /\ buffer # <<>>
    /\ keys_rx # <<>>
    /\ log # <<>>
    /\ log[Last].pass # <<>>

----------------------------------------------------------------------------
\* lib.rs: run_inner.  The loop of run_inner, the resolver it owns and the
\* three sources it awaits.  The senders of the channels are the
\* environment: the input thread for the key events and the other terminal
\* events, the caller of run for the messages.  What the handlers do to the
\* message list (State.messages) is not part of this model.

\* Events waiting in the channel of terminal events or of messages, at most.
MaxQueue == 1

\* The step of the clock, in ms, and the longest wait since the last key
\* event that is followed, in steps of the clock.
TickMs == 250
MaxWait == 3

\* A crossterm::event::Event that is not a key event.
OtherEvent(type) == [type |-> type, code |-> [variant |-> "None", c |-> 0],
                     modifiers |-> 0, kind |-> "None"]

\* The key events the input thread sends to run_inner in the model.
LoopKeys == {Key_g, Key_j, Key_q}

\* run_inner has not returned.
Running == run_pc \in {"top", "select"}

\* State::default(): Keymaps::default(), Mode::MessageList.
InitLoop ==
    /\ keymaps = KeymapsWith(DefaultMessageList)
    /\ modes = {"MessageList"}
    /\ mode = "MessageList"
    /\ keys_rx = <<>>
    /\ closed = FALSE
    /\ buffer = <<>>
    /\ buffer_skip = 0
    /\ pc = "idle"
    /\ result = Outcome("none", <<>>, NoAction)
    /\ sent = <<>>
    /\ log = <<>>
    /\ query = <<>>
    /\ got = GetUnset
    /\ InitLoopVars
    /\ InitThreadVars
    /\ InitListVars

resolverVars == << keymaps, modes, mode, keys_rx, closed, buffer, buffer_skip,
                  pc, result, sent, log, query, got >>

\* key_event_tx.send(ev.into()) while run_inner runs
LoopSend(k) == Running /\ Send(k)

\* The input thread has ended: key_event_tx is dropped.
LoopClose == Running /\ Close

\* other_event_tx.send(ev)
TermSend ==
    /\ Running
    /\ ~term_closed
    /\ Len(term_events) < MaxQueue
    /\ term_events' = Append(term_events, OtherEvent("Resize"))
    /\ UNCHANGED << stopped, run_pc, seen, term_closed, messages_rx, messages_closed,
                    timer, since_key >>
    /\ UNCHANGED << resolverVars, threadVars, listVars >>

\* The input thread has ended: other_event_tx is dropped.
TermClose ==
    /\ Running
    /\ ~term_closed
    /\ term_closed' = TRUE
    /\ UNCHANGED << stopped, run_pc, seen, term_events, messages_rx, messages_closed,
                    timer, since_key >>
    /\ UNCHANGED << resolverVars, threadVars, listVars >>

\* The caller of run sends a message.
MessageSend ==
    /\ Running
    /\ ~messages_closed
    /\ Len(messages_rx) < MaxQueue
    /\ messages_rx' = Append(messages_rx, "Message")
    /\ UNCHANGED << stopped, run_pc, seen, term_events, term_closed, messages_closed,
                    timer, since_key >>
    /\ UNCHANGED << resolverVars, threadVars, listVars >>

\* The sender of the messages is dropped.
MessageClose ==
    /\ Running
    /\ ~messages_closed
    /\ messages_closed' = TRUE
    /\ UNCHANGED << stopped, run_pc, seen, term_events, term_closed, messages_rx,
                    timer, since_key >>
    /\ UNCHANGED << resolverVars, threadVars, listVars >>

\* while !state.stopped: the condition is false, run_inner returns Ok(()).
LoopExit ==
    /\ run_pc = "top"
    /\ stopped
    /\ run_pc' = "ok"
    /\ UNCHANGED << stopped, seen, term_events, term_closed, messages_rx, messages_closed,
                    timer, since_key >>
    /\ UNCHANGED << resolverVars, threadVars, listVars >>

\* while !state.stopped { term.draw(..)?; select_events! {..
LoopDraw ==
    /\ run_pc = "top"
    /\ ~stopped
    /\ run_pc' = "select"
    /\ UNCHANGED << stopped, seen, term_events, term_closed, messages_rx, messages_closed,
                    timer, since_key >>
    /\ UNCHANGED << resolverVars, threadVars, listVars >>

\* term.draw(..)? fails: run_inner returns the error.
LoopDrawErr ==
    /\ run_pc = "top"
    /\ ~stopped
    /\ run_pc' = "err"
    /\ UNCHANGED << stopped, seen, term_events, term_closed, messages_rx, messages_closed,
                    timer, since_key >>
    /\ UNCHANGED << resolverVars, threadVars, listVars >>

\* The select polls keymap.next_cloned(state.active_keymap()): next runs up
\* to its await, where a new timeout starts (timer is 0: it was reset when
\* the select before completed and dropped the call pending then).
LoopPollNext ==
    /\ run_pc = "select"
    /\ seen = Len(log)
    /\ NextBegin(mode)

\* The pending next receives a key event, or None.
LoopNextRecvKey == run_pc = "select" /\ NextRecvKey

LoopNextRecvNone == run_pc = "select" /\ seen = Len(log) /\ NextRecvNone

\* The timeout of the pending next elapses: for keymap.timeout no key event
\* arrived and no other branch of the select became ready.
LoopNextTimeout ==
    /\ run_pc = "select"
    /\ term_events = <<>> /\ ~term_closed
    /\ messages_rx = <<>> /\ ~messages_closed
    /\ timer >= keymap.timeout
    /\ NextTimeout

\* Time passes while run_inner is suspended at the select: next is pending
\* with keys in its buffer and no branch is ready.  The timeout of the
\* pending next fires when its timer reaches keymap.timeout, not later.
Tick ==
    /\ run_pc = "select"
    /\ pc = "wait"
    /\ buffer # <<>>
    /\ keys_rx = <<>> /\ ~closed
    /\ term_events = <<>> /\ ~term_closed
    /\ messages_rx = <<>> /\ ~messages_closed
    /\ timer < keymap.timeout
    /\ since_key < MaxWait * TickMs
    /\ timer' = timer + TickMs
    /\ since_key' = since_key + TickMs
    /\ UNCHANGED << stopped, run_pc, seen, term_events, term_closed, messages_rx,
                    messages_closed >>
    /\ UNCHANGED << resolverVars, threadVars, listVars >>

\* The "key events" branch: handle_event!(state, e, handle_key_event) with
\* what next returned.  None: stopped = true; continue.  Some((keys,
\* action)): insert_keys (nothing in Mode::MessageList), Action::Quit sets
\* stopped.
LoopKeyEvents ==
    /\ run_pc = "select"
    /\ pc = "idle"
    /\ Len(log) > seen
    /\ stopped' = (result.kind = "eos" \/ result.action = "Quit")
    /\ seen' = Len(log)
    /\ timer' = 0
    /\ since_key' = IF result.kind = "key" THEN 0 ELSE since_key
    /\ run_pc' = "top"
    /\ UNCHANGED << term_events, term_closed, messages_rx, messages_closed >>
    /\ UNCHANGED << resolverVars, threadVars, listVars >>

\* Mutant of LoopTermEvents: the None of a closed channel does not stop the
\* loop.
LoopTermEvents_NoStop ==
    /\ run_pc = "select"
    /\ seen = Len(log)
    /\ term_events # <<>> \/ term_closed
    /\ term_events' = IF term_events # <<>> THEN Tail(term_events) ELSE term_events
    /\ stopped' = stopped
    /\ pc' = "idle"
    /\ result' = IF pc = "wait" THEN Outcome("cancelled", <<>>, NoAction) ELSE result
    /\ run_pc' = "top"
    /\ timer' = 0
    /\ UNCHANGED << seen, term_closed, messages_rx, messages_closed, since_key >>
    /\ UNCHANGED << keymaps, modes, mode, keys_rx, closed, buffer, buffer_skip,
                    sent, log, query, got, threadVars,
                    listVars >>

\* The "term events" branch: term_events.recv() is ready, the pending next
\* is dropped.  None: stopped = true; continue.  Some(event): handle_event.
LoopTermEvents ==
    /\ run_pc = "select"
    /\ seen = Len(log)
    /\ term_events # <<>> \/ term_closed
    /\ term_events' = IF term_events # <<>> THEN Tail(term_events) ELSE term_events
    /\ stopped' = (term_events = <<>>)
    /\ pc' = "idle"
    /\ result' = IF pc = "wait" THEN Outcome("cancelled", <<>>, NoAction) ELSE result
    /\ run_pc' = "top"
    /\ timer' = 0
    /\ UNCHANGED << seen, term_closed, messages_rx, messages_closed, since_key >>
    /\ UNCHANGED << keymaps, modes, mode, keys_rx, closed, buffer, buffer_skip,
                    sent, log, query, got, threadVars,
                    listVars >>

\* The "message stream" branch: messages.recv() is ready, the pending next
\* is dropped.  None: stopped = true; continue.  Some(m): handle_message.
LoopMessages ==
    /\ run_pc = "select"
    /\ seen = Len(log)
    /\ messages_rx # <<>> \/ messages_closed
    /\ messages_rx' = IF messages_rx # <<>> THEN Tail(messages_rx) ELSE messages_rx
    /\ stopped' = (messages_rx = <<>>)
    /\ pc' = "idle"
    /\ result' = IF pc = "wait" THEN Outcome("cancelled", <<>>, NoAction) ELSE result
    /\ run_pc' = "top"
    /\ timer' = 0
    /\ UNCHANGED << seen, term_events, term_closed, messages_closed, since_key >>
    /\ UNCHANGED << keymaps, modes, mode, keys_rx, closed, buffer, buffer_skip,
                    sent, log, query, got, threadVars,
                    listVars >>

NextLoop ==
    \/ \E k \in LoopKeys : LoopSend(k)
    \/ LoopClose
    \/ TermSend
    \/ TermClose
    \/ MessageSend
    \/ MessageClose
    \/ LoopExit
    \/ LoopDraw
    \/ LoopDrawErr
    \/ LoopPollNext
    \/ LoopNextRecvKey
    \/ LoopNextRecvNone
    \/ LoopNextTimeout
    \/ Tick
    \/ LoopKeyEvents
    \/ LoopTermEvents
    \/ LoopMessages

SpecLoop == InitLoop /\ [][NextLoop]_vars

----------------------------------------------------------------------------
\* C17: in run_inner, a step of the loop that completes the select without
\* taking an event from any source has been told of a closure (a closed
\* channel of terminal events or of messages) and sets state.stopped; the
\* step that handles what next returned sets it exactly when that is None
\* or carries Action::Quit; once state.stopped is set, nothing more is taken
\* from the key channel, the terminal events or the messages, no call of
\* next is made, and the only step of the loop left is its return of Ok(()):
\* run_inner returns Ok(()) only with state.stopped set.
C17_ClosureStopsLoop ==
    [][ /\ (run_pc = "select" /\ run_pc' = "top") =>
               /\ seen' # seen =>
                      stopped' = (result.kind = "eos" \/ result.action = "Quit")
               /\ (/\ seen' = seen
                   /\ Len(term_events') >= Len(term_events)
                   /\ Len(messages_rx') >= Len(messages_rx)) =>
                      /\ stopped'
                      /\ \/ term_closed /\ term_events = <<>>
                         \/ messages_closed /\ messages_rx = <<>>
               /\ (term_closed /\ term_events = <<>> /\ term_events' = term_events
                       /\ messages_rx' = messages_rx /\ seen' = seen) => stopped'
        /\ stopped =>
               /\ stopped'
               /\ run_pc \in {"top", "ok"}
               /\ run_pc' \in {run_pc, "ok"}
               /\ seen' = seen /\ log' = log /\ pc' = pc
               /\ buffer' = buffer /\ buffer_skip' = buffer_skip
               /\ Len(keys_rx') >= Len(keys_rx)
               /\ Len(term_events') >= Len(term_events)
               /\ Len(messages_rx') >= Len(messages_rx)
        /\ run_pc' = "ok" => stopped
      ]_vars

\* run_inner has returned Ok(()) after the channel of terminal events was
\* reported closed, with a key event and a message still queued and the
\* other two channels open.
C17_Witness ==
    /\ run_pc = "ok"
    /\ term_closed /\ term_events = <<>>
    /\ ~closed /\ ~messages_closed
    /\ result.action # "Quit"
    /\ keys_rx # <<>>
    /\ messages_rx # <<>>

----------------------------------------------------------------------------
\* C18: whenever the buffer holds an ambiguous prefix and no further key
\* event arrives, run_inner is handed that buffer as passthrough once
\* keymap.timeout has elapsed since the last key event, whatever terminal
\* events and messages complete the select in between: run_inner never waits
\* longer than keymap.timeout since the last key event with keys kept in the
\* buffer.
C18_FlushWithinTimeout ==
    (Running /\ Retained # <<>>) => since_key <= keymap.timeout

----------------------------------------------------------------------------
\* lib.rs: event_handler_inner, the input thread.  The terminal (what
\* crossterm::event::poll and read return) and the owner of the two
\* receivers (run_inner, which drops them when it returns) are the
\* environment.

\* Terminal events in one run.
MaxRead == 3

\* crossterm::event::Event::Key(KeyEvent { code, modifiers, kind, .. })
CrosstermKey(variant, c, modifiers, kind) ==
    [type |-> "Key", code |-> [variant |-> variant, c |-> c],
     modifiers |-> modifiers, kind |-> kind]

\* The events the terminal produces in the model: 'g' pressed and released,
\* CapsLock pressed, a resize, the focus gained.
TtyEvents ==
    { CrosstermKey("Char", 103, 0, "Press"),
      CrosstermKey("Char", 103, 0, "Release"),
      CrosstermKey("CapsLock", 0, 0, "Press"),
      OtherEvent("Resize"),
      OtherEvent("FocusGained") }

\* keymap.rs: enum KeyCode, the variants after Char in their order.
KeyCode_Enter == 1114111 + 3
KeyCode_Unknown == 1114111 + 16

\* impl From<crossterm::event::KeyCode> for KeyCode
KeyCodeFrom(code) ==
    CASE code.variant = "Char" -> code.c
      [] code.variant = "Enter" -> KeyCode_Enter
      [] OTHER -> KeyCode_Unknown

\* impl From<crossterm::event::KeyEvent> for KeyEvent: kind and state are
\* dropped.
KeyEventFrom(event) == KeyEvent(KeyCodeFrom(event.code), event.modifiers)

InitInput ==
    /\ keymaps = KeymapsWith(DefaultMessageList)
    /\ modes = {"MessageList"}
    /\ mode = "MessageList"
    /\ keys_rx = <<>>
    /\ closed = FALSE
    /\ buffer = <<>>
    /\ buffer_skip = 0
    /\ pc = "idle"
    /\ result = Outcome("none", <<>>, NoAction)
    /\ sent = <<>>
    /\ log = <<>>
    /\ query = <<>>
    /\ got = GetUnset
    /\ InitLoopVars
    /\ InitThreadVars
    /\ InitListVars

\* What the input thread does not touch.
inputFrame == << keymaps, modes, mode, buffer, buffer_skip, pc, result, log,
                query, got, stopped, run_pc, seen, messages_rx, messages_closed,
                timer, since_key, listVars >>

\* The terminal has an event for the thread to read.
TtyInput(ev) ==
    /\ Len(events_read) + Len(tty) < MaxRead
    /\ tty' = Append(tty, ev)
    /\ UNCHANGED << thread_pc, events_read, rx_dropped, keys_rx, sent, closed,
                    term_events, term_closed, inputFrame >>

\* A receiver is dropped (run_inner returns: its KeymapHandler, which owns
\* the receiver of the key events, and term_events go out of scope).
DropReceiver(c) ==
    /\ c \notin rx_dropped
    /\ rx_dropped' = rx_dropped \cup {c}
    /\ UNCHANGED << thread_pc, tty, events_read, keys_rx, sent, closed,
                    term_events, term_closed, inputFrame >>

\* Mutant of ThreadLoop: the loop ends only when both receivers are gone.
ThreadLoop_BothClosed ==
    /\ thread_pc = "loop"
    /\ IF rx_dropped = {"key", "other"}
       THEN thread_pc' = "done" /\ closed' = TRUE /\ term_closed' = TRUE
       ELSE thread_pc' = "poll" /\ UNCHANGED << closed, term_closed >>
    /\ UNCHANGED << tty, events_read, rx_dropped, keys_rx, sent, term_events,
                    inputFrame >>

\* while !(key_event_tx.is_closed() || other_event_tx.is_closed()): when
\* the condition is false the function returns and both senders are dropped.
ThreadLoop ==
    /\ thread_pc = "loop"
    /\ IF rx_dropped # {}
       THEN thread_pc' = "done" /\ closed' = TRUE /\ term_closed' = TRUE
       ELSE thread_pc' = "poll" /\ UNCHANGED << closed, term_closed >>
    /\ UNCHANGED << tty, events_read, rx_dropped, keys_rx, sent, term_events,
                    inputFrame >>

\* crossterm::event::poll(TIMEOUT) = Ok(true): an event is available.
ThreadPollReady ==
    /\ thread_pc = "poll"
    /\ tty # <<>>
    /\ thread_pc' = "read"
    /\ UNCHANGED << tty, events_read, rx_dropped, keys_rx, sent, closed,
                    term_events, term_closed, inputFrame >>

\* poll(TIMEOUT) = Ok(false): no event within 500 ms.
ThreadPollTimeout ==
    /\ thread_pc = "poll"
    /\ tty = <<>>
    /\ thread_pc' = "loop"
    /\ UNCHANGED << tty, events_read, rx_dropped, keys_rx, sent, closed,
                    term_events, term_closed, inputFrame >>

\* poll(TIMEOUT) = Err(e): a warning is logged.
ThreadPollErr ==
    /\ thread_pc = "poll"
    /\ thread_pc' = "loop"
    /\ UNCHANGED << tty, events_read, rx_dropped, keys_rx, sent, closed,
                    term_events, term_closed, inputFrame >>

\* crossterm::event::read() = Ok(ev).  Event::Key(ev): let _ =
\* key_event_tx.send(ev.into()); any other event: let _ =
\* other_event_tx.send(ev).  send fails, and the event is dropped, when the
\* receiver is gone.
ThreadRead ==
    /\ thread_pc = "read"
    /\ tty # <<>>
    /\ LET ev == Head(tty)
       IN  /\ tty' = Tail(tty)
           /\ events_read' = Append(events_read, ev)
           /\ IF ev.type = "Key"
              THEN /\ IF "key" \in rx_dropped
                      THEN UNCHANGED << keys_rx, sent >>
                      ELSE /\ keys_rx' = Append(keys_rx, KeyEventFrom(ev))
                           /\ sent' = Append(sent, KeyEventFrom(ev))
                   /\ UNCHANGED term_events
              ELSE /\ IF "other" \in rx_dropped
                      THEN UNCHANGED term_events
                      ELSE term_events' = Append(term_events, ev)
                   /\ UNCHANGED << keys_rx, sent >>
    /\ thread_pc' = "loop"
    /\ UNCHANGED << rx_dropped, closed, term_closed, inputFrame >>

\* crossterm::event::read() = Err(e): a warning is logged.
ThreadReadErr ==
    /\ thread_pc = "read"
    /\ thread_pc' = "loop"
    /\ UNCHANGED << tty, events_read, rx_dropped, keys_rx, sent, closed,
                    term_events, term_closed, inputFrame >>

ThreadStep ==
    \/ ThreadLoop
    \/ ThreadPollReady
    \/ ThreadPollTimeout
    \/ ThreadPollErr
    \/ ThreadRead
    \/ ThreadReadErr

NextInput ==
    \/ \E ev \in TtyEvents : TtyInput(ev)
    \/ \E c \in {"key", "other"} : DropReceiver(c)
    \/ ThreadLoop
    \/ ThreadPollReady
    \/ ThreadPollTimeout
    \/ ThreadPollErr
    \/ ThreadRead
    \/ ThreadReadErr

\* The thread is an OS thread of its own: it keeps being scheduled, and
\* poll returns after TIMEOUT at the latest.
SpecInput == InitInput /\ [][NextInput]_vars /\ WF_vars(ThreadStep)

----------------------------------------------------------------------------
\* The key events among the events read, converted, and the other events.
RECURSIVE KeysOf(_)
KeysOf(l) ==
    IF l = <<>> THEN <<>>
    ELSE KeysOf(SubSeq(l, 1, Len(l) - 1)) \o
         (IF l[Len(l)].type = "Key" THEN << KeyEventFrom(l[Len(l)]) >> ELSE <<>>)

RECURSIVE OthersOf(_)
OthersOf(l) ==
    IF l = <<>> THEN <<>>
    ELSE OthersOf(SubSeq(l, 1, Len(l) - 1)) \o
         (IF l[Len(l)].type # "Key" THEN << l[Len(l)] >> ELSE <<>>)

\* What the two channels have been sent is, in the order read, the key
\* events read (converted) and the other events read: all of them while the
\* receiver is alive, those read before it was dropped otherwise; no event
\* is in both channels.
ForwardedInOrder ==
    /\ keys_rx = sent
    /\ IsPrefix(sent, KeysOf(events_read))
    /\ "key" \notin rx_dropped => sent = KeysOf(events_read)
    /\ IsPrefix(term_events, OthersOf(events_read))
    /\ "other" \notin rx_dropped => term_events = OthersOf(events_read)
    /\ \A i \in 1..Len(term_events) : term_events[i].type # "Key"
    /\ Len(sent) + Len(term_events) <= Len(events_read)
    /\ thread_pc = "done" <=> closed
    /\ thread_pc = "done" <=> term_closed
    /\ thread_pc = "done" => rx_dropped # {}

\* C20: the input thread sends every key event it reads to the key channel
\* and every other event to the other channel, in the order read and never
\* to both; and once the receiver of either channel has been dropped it
\* returns in the end, a send that fails then being ignored (the thread goes
\* on to test the loop condition).
C20_InputThread ==
    /\ []ForwardedInOrder
    /\ (rx_dropped # {}) ~> (thread_pc = "done")

\* The thread has returned after a receiver was dropped, having read a key
\* event and another event that it could forward and a key event whose send
\* failed.
C20_Witness ==
    /\ thread_pc = "done"
    /\ sent # <<>>
    /\ term_events # <<>>
    /\ Len(KeysOf(events_read)) > Len(sent)

----------------------------------------------------------------------------
(***************************************************************************)
(* message_list.rs: MessageListView.  The BTreeMap of the messages is the  *)
(* set of its keys, read in key order; the bodies of the messages play no  *)
(* part in the cursor.  The calls of insert, delete, delete_selected,      *)
(* select and render are the inputs, in any order: handle_key_event and    *)
(* handle_message of lib.rs make them one at a time on the loop's thread.  *)
(***************************************************************************)

\* Timestamps of the messages of one run.
MaxTime == 2

\* Largest index passed to select(FromStart(_)) and select(FromEnd(_)).
MaxIndex == 2

\* Largest |offset| passed to select(Relative(_)).
MaxOffset == 2

\* select(Relative(k)), k # 0, is called while the selected row is at most
\* this or is the wrapped row (calls with k > 0 make the row grow, calls
\* with k < 0 bring the wrapped row down, until the next render).
MaxRow == 3

\* Width of usize in the model.  The program's usize has 64 bits; the
\* integers of the model checker have 32, so wrapping arithmetic is taken
\* modulo 2^30: a wrapped row is far beyond every list of the model in
\* both.
UsizeBits == 30
USIZE_MAX == 2 ^ UsizeBits - 1

\* carrier-pigeon-common: MessageKey { timestamp, identifier }
MessageKey(timestamp, identifier) ==
    [timestamp |-> timestamp, identifier |-> identifier]

\* Two identifiers, numbered in the order of their strings.
Identifiers == {1, 2}

MessageKeys == { MessageKey(t, i) : t \in 1..MaxTime, i \in Identifiers }

\* #[derive(Ord)] on MessageKey: by timestamp, then by identifier.
KeyLt(a, b) ==
    \/ a.timestamp < b.timestamp
    \/ a.timestamp = b.timestamp /\ a.identifier < b.identifier

\* The keys of a BTreeMap in iteration order.
RECURSIVE KeysInOrder(_)
KeysInOrder(S) ==
    IF S = {} THEN <<>>
    ELSE LET first == CHOOSE k \in S : \A j \in S \ {k} : KeyLt(k, j)
         IN  <<first>> \o KeysInOrder(S \ {first})

\* Iterator::nth, DoubleEndedIterator::nth_back
Nth(keys, n) == IF n < Len(keys) THEN Some(keys[n + 1]) ELSE None
NthBack(keys, n) == IF n < Len(keys) THEN Some(keys[Len(keys) - n]) ELSE None

\* BTreeMap::range((lower, Unbounded)) and range((Unbounded, upper)): the
\* bound is Unbounded (None) or Excluded(key) (Some(key)).
RangeAfter(M, lower) ==
    KeysInOrder({ m \in M : lower = None \/ KeyLt(lower.value, m) })
RangeBefore(M, upper) ==
    KeysInOrder({ m \in M : upper = None \/ KeyLt(m, upper.value) })

\* Option::or_else, Option::unwrap_or
OrElse(a, b) == IF a = None THEN b ELSE a
UnwrapOr(a, d) == IF a = None THEN d ELSE a.value

\* usize::saturating_sub, usize::saturating_add
saturating_sub(a, b) == IF a > b THEN a - b ELSE 0
saturating_add(a, b) == IF a > USIZE_MAX - b THEN USIZE_MAX ELSE a + b

\* `offset as u16`
AsU16(n) == n % 65536

\* enum MessageSelector
FromStart(index) == [kind |-> "FromStart", n |-> index]
FromEnd(index) == [kind |-> "FromEnd", n |-> index]
Relative(offset) == [kind |-> "Relative", n |-> offset]

Selectors ==
    { FromStart(i) : i \in 0..MaxIndex } \cup { FromEnd(i) : i \in 0..MaxIndex }
        \cup { Relative(k) : k \in (0 - MaxOffset)..MaxOffset }

\* Mutant of select_Relative: a cursor that cannot move that far is put on
\* the last (the first) message.
select_Relative_Clamped(offset) ==
    /\ IF offset = 0 THEN UNCHANGED << cursor, list_selected >>
       ELSE IF offset > 0
       THEN LET after == RangeAfter(messages, cursor)
            IN  /\ cursor' = OrElse(Nth(after, offset - 1),
                                    OrElse(NthBack(after, 0), cursor))
                /\ list_selected' =
                       Some(saturating_add(UnwrapOr(list_selected, 0),
                                           AsU16(offset)))
       ELSE LET before == RangeBefore(messages, cursor)
            IN  /\ cursor' = OrElse(NthBack(before, (0 - offset) - 1),
                                    OrElse(Nth(before, 0), cursor))
                /\ list_selected' =
                       Some(saturating_sub(UnwrapOr(list_selected, 0),
                                           AsU16(0 - offset)))
    /\ UNCHANGED panicked

\* select, the three arms of Relative: 0, 1.., ..=-1.  ListState's
\* scroll_down_by and scroll_up_by add to and subtract from the selected
\* row (0 when there is none), saturating.
select_Relative(offset) ==
    /\ IF offset = 0 THEN UNCHANGED << cursor, list_selected >>
       ELSE IF offset > 0
       THEN LET after == RangeAfter(messages, cursor)
            IN  /\ cursor' = OrElse(Nth(after, offset - 1), cursor)
                /\ list_selected' =
                       Some(saturating_add(UnwrapOr(list_selected, 0),
                                           AsU16(offset)))
       ELSE LET before == RangeBefore(messages, cursor)
            IN  /\ cursor' = OrElse(NthBack(before, (0 - offset) - 1), cursor)
                /\ list_selected' =
                       Some(saturating_sub(UnwrapOr(list_selected, 0),
                                           AsU16(0 - offset)))
    /\ UNCHANGED panicked

\* select, the arm of FromStart
select_FromStart(index) ==
    /\ cursor' = Nth(KeysInOrder(messages), index)
    /\ list_selected' = Some(index)
    /\ UNCHANGED panicked

\* select, the arm of FromEnd.  `len.saturating_sub(index) - 1` is 0 - 1
\* when len <= index: the subtraction panics in a build with overflow
\* checks (the cursor is already assigned) and wraps in one without.
select_FromEnd(index) ==
    /\ cursor' = NthBack(KeysInOrder(messages), index)
    /\ LET rest == saturating_sub(Cardinality(messages), index)
       IN  IF rest - 1 < 0 /\ overflow_checks
           THEN panicked' = TRUE /\ UNCHANGED list_selected
           ELSE /\ list_selected' = Some((rest - 1) % (2 ^ UsizeBits))
                /\ UNCHANGED panicked

\* MessageListView::select
select(selector) ==
    /\ CASE selector.kind = "FromStart" -> select_FromStart(selector.n)
         [] selector.kind = "FromEnd" -> select_FromEnd(selector.n)
         [] selector.kind = "Relative" -> select_Relative(selector.n)
    /\ UNCHANGED << messages, dirty >>

\* MessageListView::insert
insert(key) ==
    /\ cursor' = IF cursor = None THEN Some(key) ELSE cursor
    /\ messages' = messages \cup {key}
    /\ dirty' = TRUE
    /\ UNCHANGED << list_selected, panicked >>

\* Mutant of delete: the cursor goes to the previous message first.
delete_PreviousFirst(key) ==
    /\ cursor' = IF cursor = Some(key)
                 THEN OrElse(NthBack(RangeBefore(messages, Some(key)), 0),
                             Nth(RangeAfter(messages, Some(key)), 0))
                 ELSE cursor
    /\ messages' = messages \ {key}
    /\ dirty' = TRUE
    /\ UNCHANGED << list_selected, panicked >>

\* MessageListView::delete
delete(key) ==
    /\ cursor' = IF cursor = Some(key)
                 THEN OrElse(Nth(RangeAfter(messages, Some(key)), 0),
                             NthBack(RangeBefore(messages, Some(key)), 0))
                 ELSE cursor
    /\ messages' = messages \ {key}
    /\ dirty' = TRUE
    /\ UNCHANGED << list_selected, panicked >>

\* MessageListView::delete_selected
delete_selected ==
    IF cursor = None
    THEN UNCHANGED << messages, cursor, list_selected, dirty, panicked >>
    ELSE delete(cursor.value)

\* The row of the cursor in redraw_list: the position of its message.
selected_idx ==
    LET keys == KeysInOrder(messages)
    IN  IF cursor # None /\ \E i \in 1..Len(keys) : keys[i] = cursor.value
        THEN Some((CHOOSE i \in 1..Len(keys) : keys[i] = cursor.value) - 1)
        ELSE None

\* MessageListView::redraw_list: what it leaves in list_state.selected
redraw_list == Some(UnwrapOr(selected_idx, 0))

\* Widget::render for &mut MessageListView: redraw_list when dirty, then
\* the list widget draws list_items with list_state: no row is selected in
\* an empty list, and a row past the end becomes the last row.
render ==
    /\ LET row == IF dirty THEN redraw_list ELSE list_selected
           len == Cardinality(messages)
       IN  list_selected' =
               IF len = 0 THEN None
               ELSE IF row # None /\ row.value >= len THEN Some(len - 1)
               ELSE row
    /\ dirty' = FALSE
    /\ UNCHANGED << messages, cursor, panicked >>

\* The record of a call: the operation, its argument, the view before it.
Call(op, arg) ==
    [op |-> op, arg |-> arg, messages |-> messages, cursor |-> cursor,
     list_selected |-> list_selected, dirty |-> dirty]

\* What the view does not touch.
listFrame == << keymaps, modes, mode, keys_rx, closed, buffer, buffer_skip,
                pc, result, sent, log, query, got, loopVars, threadVars,
                overflow_checks >>

\* A view, in either build.
InitList ==
    /\ keymaps = KeymapsWith(DefaultMessageList)
    /\ modes = {"MessageList"}
    /\ mode = "MessageList"
    /\ keys_rx = <<>>
    /\ closed = FALSE
    /\ buffer = <<>>
    /\ buffer_skip = 0
    /\ pc = "idle"
    /\ result = Outcome("none", <<>>, NoAction)
    /\ sent = <<>>
    /\ log = <<>>
    /\ query = <<>>
    /\ got = GetUnset
    /\ InitLoopVars
    /\ InitThreadVars
    /\ InitView
    /\ overflow_checks \in BOOLEAN

\* handle_message: messages.insert(message)
ListInsert(key) ==
    /\ ~panicked
    /\ insert(key)
    /\ last' = Call("insert", key)
    /\ UNCHANGED listFrame

\* MessageListView::delete called with any key
ListDelete(key) ==
    /\ ~panicked
    /\ delete(key)
    /\ last' = Call("delete", key)
    /\ UNCHANGED listFrame

\* handle_key_event, Action::DeleteSelectedMessage
ListDeleteSelected ==
    /\ ~panicked
    /\ delete_selected
    /\ last' = Call("delete_selected", None)
    /\ UNCHANGED listFrame

\* handle_key_event, Action::SelectMessage(selector)
ListSelect(selector) ==
    /\ ~panicked
    /\ (selector.kind = "Relative" /\ selector.n # 0)
           => UnwrapOr(list_selected, 0) \in (0..MaxRow) \cup {USIZE_MAX}
    /\ select(selector)
    /\ last' = Call("select", selector)
    /\ UNCHANGED listFrame

\* run_inner: term.draw renders the state, and with it the view
ListRender ==
    /\ ~panicked
    /\ render
    /\ last' = Call("render", None)
    /\ UNCHANGED listFrame

NextList ==
    \/ \E key \in MessageKeys : ListInsert(key)
    \/ \E key \in MessageKeys : ListDelete(key)
    \/ ListDeleteSelected
    \/ \E selector \in Selectors : ListSelect(selector)
    \/ ListRender

SpecList == InitList /\ [][NextList]_vars

----------------------------------------------------------------------------
\* Claim support for the view.

\* The message deleted by the last call, when that call was a delete or a
\* delete_selected with a message under the cursor.
DeleteCalled ==
    \/ last.op = "delete"
    \/ last.op = "delete_selected" /\ last.cursor # None
Deleted == IF last.op = "delete" THEN last.arg ELSE last.cursor.value

\* The messages after and before a key in the view the last call found.
LaterThan(key) == { m \in last.messages : KeyLt(key, m) }
EarlierThan(key) == { m \in last.messages : KeyLt(m, key) }

\* The first and the last key of a non-empty set, in key order.
Smallest(S) == CHOOSE m \in S : \A o \in S : o = m \/ KeyLt(m, o)
Greatest(S) == CHOOSE m \in S : \A o \in S : o = m \/ KeyLt(o, m)

\* C21: after delete(key) (called directly or by delete_selected) the
\* message is gone and the view is dirty; a cursor that was on the message
\* is on the next message in key order, else on the previous one, else
\* None, and a cursor that was elsewhere has not moved.
C21_DeleteMovesCursor ==
    DeleteCalled =>
        /\ messages = last.messages \ {Deleted}
        /\ dirty
        /\ IF last.cursor = Some(Deleted)
           THEN IF LaterThan(Deleted) # {}
                THEN cursor = Some(Smallest(LaterThan(Deleted)))
                ELSE IF EarlierThan(Deleted) # {}
                THEN cursor = Some(Greatest(EarlierThan(Deleted)))
                ELSE cursor = None
           ELSE cursor = last.cursor

\* The message under the cursor was deleted with messages on both sides of
\* it, and the cursor is on the one that followed it.
C21_Witness ==
    /\ DeleteCalled
    /\ last.cursor = Some(Deleted)
    /\ LaterThan(Deleted) # {}
    /\ EarlierThan(Deleted) # {}
    /\ cursor = Some(Smallest(LaterThan(Deleted)))
    /\ Deleted \notin messages

\* C22: after any sequence of insert, delete, delete_selected and select
\* the cursor is None or the key of a message in the list, and it is None
\* only when the list is empty.
C22_CursorInList ==
    /\ cursor = None \/ cursor.value \in messages
    /\ cursor = None => messages = {}

\* The last call was select(FromEnd(index)).
FromEndCalled == last.op = "select" /\ last.arg.kind = "FromEnd"

\* C23: select(FromEnd(index)) computes the highlighted row as
\* len - index - 1 without underflow, for every len and every index (the
\* empty list included): the call does not panic and the row is that
\* number, which is a row of the list when the list is not empty.
C23_FromEndRow ==
    FromEndCalled =>
        LET len == Cardinality(last.messages)
            row == len - last.arg.n - 1
        IN  /\ ~panicked
            /\ list_selected = Some(row)
            /\ row >= 0
            /\ len > 0 => row < len

\* The last call was select(Relative(k)).
RelativeCalled == last.op = "select" /\ last.arg.kind = "Relative"

\* The messages past the cursor the last call found: all of them when
\* there was no cursor.
AfterCursor ==
    IF last.cursor = None THEN last.messages ELSE LaterThan(last.cursor.value)
BeforeCursor == EarlierThan(last.cursor.value)

\* The n-th key of S in key order (n >= 1), and counted from its end.
NthOf(S, n) == CHOOSE m \in S : Cardinality({ o \in S : KeyLt(o, m) }) = n - 1
NthFromEndOf(S, n) ==
    CHOOSE m \in S : Cardinality({ o \in S : KeyLt(m, o) }) = n - 1

\* C24: select(Relative(k)) with k > 0 puts the cursor on the k-th message
\* after it (the k-th of the list when there was no cursor), with k < 0 on
\* the |k|-th message before it, and with k = 0 changes nothing; when
\* there are fewer than |k| messages in that direction the cursor stays
\* where it was.  No call changes the messages.
C24_RelativeMoves ==
    RelativeCalled =>
        LET k == last.arg.n
        IN  /\ messages = last.messages
            /\ k = 0 => /\ cursor = last.cursor
                        /\ list_selected = last.list_selected
                        /\ dirty = last.dirty
            /\ k > 0 =>
                   cursor = IF Cardinality(AfterCursor) >= k
                            THEN Some(NthOf(AfterCursor, k))
                            ELSE last.cursor
            /\ (k < 0 /\ last.cursor # None) =>
                   cursor = IF Cardinality(BeforeCursor) >= 0 - k
                            THEN Some(NthFromEndOf(BeforeCursor, 0 - k))
                            ELSE last.cursor

\* select(Relative(2)) was called with the cursor on the last but one
\* message: the cursor has stayed there, the last message is not selected.
C24_Witness ==
    /\ RelativeCalled
    /\ last.arg.n = 2
    /\ last.cursor # None
    /\ Cardinality(AfterCursor) = 1
    /\ Cardinality(BeforeCursor) >= 1
    /\ cursor = last.cursor

====
